---- MODULE Spec2Model ----
(***************************************************************************)
(* account_move_csv_import: one run of the import wizard, from the pivot   *)
(* the parser returns to the reconciliation of the created journal items.  *)
(*                                                                         *)
(* Encoding of Python values:                                              *)
(*   - the value of a text field (account, journal, partner, move_name,    *)
(*     ref, reconcile_ref, name, analytic) is a tuple: a str is the tuple  *)
(*     of its one-character strings ('' is the empty tuple), False is      *)
(*     <<"False">> and a key the parser did not set (dict.get() gives      *)
(*     None) is <<"None">>;                                                *)
(*   - database ids are positive integers, 0 stands for "key not set"      *)
(*     (dict.get() returning None) or for the initial False;               *)
(*   - amounts are integers counted in thirds of the currency rounding     *)
(*     unit, so that amounts below the zero tolerance exist; 0 stands for  *)
(*     every falsy amount (0.0, False, '');                                *)
(*   - a date is a positive integer, 0 stands for every falsy date.        *)
(***************************************************************************)
EXTENDS Integers, Sequences, FiniteSets, TLC

VARIABLES
    cfg,            \* the wizard's options
    db,             \* the company's accounts, journals and partners
    pivot,          \* the pivot lines, resolved in place
    pc,             \* position in run_import
    err,            \* the exception that ended the run, "none" otherwise
    errarg,         \* the number the split and balance errors report
    i,              \* index of the next pivot line of the running loop
    errors,         \* the resolver's error buckets
    cur,            \* the splitter's cur_* variables
    moves,          \* the splitter's list of entries
    created,        \* entries handed to account.move.create, in order
    posted,         \* action_post() was called
    torec,          \* reconcile groups still to evaluate
    linked,         \* reconcile refs on which reconcile() was called
    skipped         \* reconcile refs skipped, with the reason

vars == <<cfg, db, pivot, pc, err, errarg, i, errors, cur, moves, created,
          posted, torec, linked, skipped>>

----------------------------------------------------------------------------
(* Bounds *)

MaxLines == 3

----------------------------------------------------------------------------
(* Python values *)

FalseV == <<"False">>
NoneV == <<"None">>

\* the False of a code
Absent == FalseV

\* "not s", for the value of a text field
Falsy(s) == s \in {FalseV, NoneV, <<>>}

\* isinstance(s, str)
IsStr(s) == s \notin {FalseV, NoneV}

Abs(x) == IF x < 0 THEN -x ELSE x

Rounding == 3

\* res.currency.is_zero: the amount rounds (half-up) to zero at the
\* currency's rounding.
IsZero(x) == 2 * Abs(x) < Rounding

\* the letters the codes of the model are written with
Lower == <<"a", "b", "p", "q", "t", "v", "x">>
Capital == <<"A", "B", "P", "Q", "T", "V", "X">>

UpperChar(c) ==
    IF \E n \in 1..Len(Lower) : Lower[n] = c
    THEN Capital[CHOOSE n \in 1..Len(Lower) : Lower[n] = c]
    ELSE c

\* str.upper()
Upper(code) == [k \in 1..Len(code) |-> UpperChar(code[k])]

\* str.startswith(prefix), for a str prefix
StartsWith(code, prefix) ==
    /\ Len(prefix) <= Len(code)
    /\ SubSeq(code, 1, Len(prefix)) = prefix

\* (mutant) one whitespace character is removed at each end
StripOnce(s) ==
    LET a == IF s # <<>> /\ s[1] = " " THEN Tail(s) ELSE s
    IN IF a # <<>> /\ a[Len(a)] = " " THEN SubSeq(a, 1, Len(a) - 1) ELSE a

\* str.strip(): the whitespace of the model's strings is the space
RECURSIVE Strip(_)
Strip(s) ==
    IF s # <<>> /\ s[1] = " " THEN Strip(Tail(s))
    ELSE IF s # <<>> /\ s[Len(s)] = " " THEN Strip(SubSeq(s, 1, Len(s) - 1))
    ELSE s

\* str.split(sep), for a one-character separator
RECURSIVE Split(_, _)
Split(s, sep) ==
    IF \A k \in 1..Len(s) : s[k] # sep THEN <<s>>
    ELSE LET n == CHOOSE k \in 1..Len(s) :
                    s[k] = sep /\ \A m \in 1..(k - 1) : s[m] # sep
         IN <<SubSeq(s, 1, n - 1)>> \o Split(SubSeq(s, n + 1, Len(s)), sep)

\* sep.join(parts)
RECURSIVE Join(_, _)
Join(parts, sep) ==
    IF parts = <<>> THEN <<>>
    ELSE IF Len(parts) = 1 THEN parts[1]
    ELSE parts[1] \o <<sep>> \o Join(Tail(parts), sep)

\* str.replace(old, new), for one-character strings
Replace(s, old, new) == [k \in 1..Len(s) |-> IF s[k] = old THEN new ELSE s[k]]

----------------------------------------------------------------------------
(* clean_strip_pivot, update_pivot *)

TextFields ==
    {"account", "journal", "partner", "move_name", "ref", "reconcile_ref",
     "name", "analytic"}

\* (mutant) a string that is empty once stripped stays the empty string
CleanValueKeepEmpty(v) ==
    IF v = NoneV THEN NoneV
    ELSE IF IsStr(v) /\ v # <<>> THEN Strip(v)
    ELSE FalseV

\* The value clean_strip_pivot leaves in a text field: a key that is not in
\* the dict is not visited; if value: value.strip() or False; else: False.
CleanValue(v) ==
    IF v = NoneV THEN NoneV
    ELSE IF IsStr(v) /\ v # <<>>
    THEN IF Strip(v) = <<>> THEN FalseV ELSE Strip(v)
    ELSE FalseV

\* (mutant) the strings lose one whitespace character at each end
CleanStripLineOnce(l) ==
    [f \in DOMAIN l |->
        IF f \notin TextFields \/ l[f] = NoneV THEN l[f]
        ELSE IF IsStr(l[f]) /\ l[f] # <<>>
        THEN IF StripOnce(l[f]) = <<>> THEN FalseV ELSE StripOnce(l[f])
        ELSE FalseV]

\* One line of clean_strip_pivot. The values that are not strings (date,
\* debit, credit, line) are kept when truthy and become False otherwise:
\* both leave 0 where there is 0.
CleanStripLine(l) ==
    [f \in DOMAIN l |-> IF f \in TextFields THEN CleanValue(l[f]) ELSE l[f]]

\* One line of update_pivot: the forced values, as the wizard holds them;
\* a falsy credit or debit becomes 0.0.
UpdateLine(l, c) ==
    [l EXCEPT
        !.date = IF c.force_move_date # 0 THEN c.force_move_date ELSE @,
        !.name = IF ~Falsy(c.force_move_line_name)
                 THEN c.force_move_line_name ELSE @,
        !.ref = IF ~Falsy(c.force_move_ref) THEN c.force_move_ref ELSE @,
        !.journal = IF ~Falsy(c.force_journal_code)
                    THEN c.force_journal_code ELSE @,
        !.credit = IF @ = 0 THEN 0 ELSE @,
        !.debit = IF @ = 0 THEN 0 ELSE @]

\* clean_strip_pivot(pivot) then update_pivot(pivot)
NormalizePivot(p, c) ==
    [k \in 1..Len(p) |-> UpdateLine(CleanStripLine(p[k]), c)]

\* run_import, from the parsed pivot to create_moves_from_pivot
Normalize ==
    /\ pc = "normalize"
    /\ err = "none"
    /\ pivot' = NormalizePivot(pivot, cfg)
    /\ pc' = "resolve"
    /\ UNCHANGED <<cfg, db, err, errarg, i, errors, cur, moves, created,
                   posted, torec, linked, skipped>>

----------------------------------------------------------------------------
(* Python dicts, in insertion order: a sequence of [key, val] *)

DictHas(d, k) == \E j \in 1..Len(d) : d[j].key = k

DictGet(d, k) ==
    IF DictHas(d, k)
    THEN d[CHOOSE j \in 1..Len(d) : d[j].key = k].val
    ELSE 0

\* d[k] = v
DictSet(d, k, v) ==
    IF DictHas(d, k)
    THEN [j \in 1..Len(d) |-> IF d[j].key = k THEN [key |-> k, val |-> v] ELSE d[j]]
    ELSE Append(d, [key |-> k, val |-> v])

\* (mutant) the list of the key is replaced, not appended to
DictAppendOverwrite(d, k, v) == DictSet(d, k, <<v>>)

\* d.setdefault(k, []).append(v)
DictAppend(d, k, v) ==
    IF DictHas(d, k) THEN DictSet(d, k, Append(DictGet(d, k), v))
    ELSE DictSet(d, k, <<v>>)

----------------------------------------------------------------------------
(* _prepare_speeddict *)

\* for l in search_read: speeddict[l['code'].upper()] = l['id']
RECURSIVE SpeeddictOf(_)
SpeeddictOf(rows) ==
    IF rows = <<>> THEN <<>>
    ELSE LET n == Len(rows)
         IN DictSet(SpeeddictOf(SubSeq(rows, 1, n - 1)),
                    Upper(rows[n].code), rows[n].id)

PrepareSpeeddict(d) ==
    [account |-> SpeeddictOf(d.accounts),
     journal |-> SpeeddictOf(d.journals),
     partner |-> SpeeddictOf(d.partners),
     analytic |-> SpeeddictOf(d.analytics)]

----------------------------------------------------------------------------
(* Account resolution *)

\* while acc_code_tmp and acc_code_tmp[-1] == '0': strip one zero, look up
RECURSIVE StripZeros(_, _)
StripZeros(code, dict) ==
    IF ~Falsy(code) /\ code[Len(code)] = "0"
    THEN LET t == SubSeq(code, 1, Len(code) - 1)
         IN IF t # <<>> /\ DictHas(dict, t) THEN DictGet(dict, t)
            ELSE StripZeros(t, dict)
    ELSE 0

\* for code, account_id in dict.items(): if code.startswith(import): break
FirstPrefixMatch(code, dict) ==
    LET hits == {j \in 1..Len(dict) : StartsWith(dict[j].key, code)}
    IN IF hits = {} THEN 0
       ELSE dict[CHOOSE j \in hits : \A h \in hits : j <= h].val

\* (mutant) the prefix scan comes before the trailing-zero truncation
ResolveAccountPrefixFirst(code, dict) ==
    LET exact == DictGet(dict, code)
        scan == IF ~IsStr(code) THEN 0 ELSE FirstPrefixMatch(code, dict)
        trunc == StripZeros(code, dict)
    IN IF exact # 0 THEN [id |-> exact, crash |-> FALSE]
       ELSE IF ~IsStr(code) /\ dict # <<>> THEN [id |-> 0, crash |-> TRUE]
       ELSE IF scan # 0 THEN [id |-> scan, crash |-> FALSE]
       ELSE [id |-> trunc, crash |-> FALSE]

\* The account_id of a line; crash: code.startswith(False) raises TypeError.
ResolveAccount(code, dict) ==
    LET exact == DictGet(dict, code)
        trunc == StripZeros(code, dict)
    IN IF exact # 0 THEN [id |-> exact, crash |-> FALSE]
       ELSE IF trunc # 0 THEN [id |-> trunc, crash |-> FALSE]
       ELSE IF ~IsStr(code)
            THEN [id |-> 0, crash |-> dict # <<>>]
            ELSE [id |-> FirstPrefixMatch(code, dict), crash |-> FALSE]

----------------------------------------------------------------------------
(* Analytic distribution *)

Digits == <<"0", "1", "2", "3", "4", "5", "6", "7", "8", "9">>

AllDigits(s) == \A k \in 1..Len(s) : \E n \in 1..Len(Digits) : Digits[n] = s[k]

\* the number a string of digits writes
RECURSIVE NumOf(_)
NumOf(s) ==
    IF s = <<>> THEN 0
    ELSE 10 * NumOf(SubSeq(s, 1, Len(s) - 1))
         + (CHOOSE n \in 1..Len(Digits) : Digits[n] = s[Len(s)]) - 1

RECURSIVE Pow10(_)
Pow10(n) == IF n = 0 THEN 1 ELSE 10 * Pow10(n - 1)

\* a float, as the fraction num/den; nan is 0/0
Pct(num, den) == [num |-> num, den |-> den]
NaN == Pct(0, 0)

\* float(s), for the strings made of digits, '.', '-', spaces and letters:
\* surrounding whitespace is ignored, "nan" is a float, a sign and a
\* decimal point are accepted; ok is FALSE where float() raises.
ParseFloat(s) ==
    LET t == Strip(s)
        neg == t # <<>> /\ t[1] = "-"
        body == IF neg THEN Tail(t) ELSE t
        parts == Split(body, ".")
        whole == parts[1]
        frac == IF Len(parts) = 2 THEN parts[2] ELSE <<>>
    IN IF body = <<"n", "a", "n">> THEN [ok |-> TRUE, val |-> NaN]
       ELSE IF /\ Len(parts) <= 2
               /\ AllDigits(whole)
               /\ AllDigits(frac)
               /\ whole \o frac # <<>>
       THEN [ok |-> TRUE,
             val |-> Pct((IF neg THEN -1 ELSE 1) * NumOf(whole \o frac),
                         Pow10(Len(frac)))]
       ELSE [ok |-> FALSE, val |-> NaN]

\* ana_pct < 0 or ana_pct > 100: both comparisons are false on nan
PctOutOfRange(x) ==
    x.den # 0 /\ (x.num < 0 \/ x.num > 100 * x.den)

\* One ana_entry of l['analytic'].split('|'), on the distribution and the
\* error buckets built so far.
AnalyticEntry(entry, line, dict, acc) ==
    LET e == Strip(entry)
        parts == Split(e, ":")
        one == Len(parts) = 1
        code == IF one THEN Strip(parts[1])
                ELSE Strip(Join(SubSeq(parts, 1, Len(parts) - 1), ":"))
        pf == ParseFloat(Replace(parts[Len(parts)], ",", "."))
        pct == IF one THEN Pct(100, 1)
               ELSE IF pf.ok THEN pf.val
               ELSE Pct(1, 1)
        e1 == IF ~one /\ ~pf.ok
              THEN [acc.errors EXCEPT !.other =
                        Append(@, [kind |-> "analytic_not_a_number", line |-> line])]
              ELSE acc.errors
        e2 == IF ~one /\ PctOutOfRange(pct)
              THEN [e1 EXCEPT !.other =
                        Append(@, [kind |-> "analytic_range", line |-> line])]
              ELSE e1
    IN IF e = <<>> THEN acc
       ELSE IF DictHas(dict, code)
       THEN [dist |-> DictSet(acc.dist, DictGet(dict, code), pct), errors |-> e2]
       ELSE [dist |-> acc.dist,
             errors |-> [e2 EXCEPT !.analytic = DictAppend(@, code, line)]]

\* for ana_entry in l['analytic'].split('|')
RECURSIVE AnalyticEntries(_, _, _, _)
AnalyticEntries(entries, line, dict, acc) ==
    IF entries = <<>> THEN acc
    ELSE AnalyticEntries(Tail(entries), line, dict,
                         AnalyticEntry(Head(entries), line, dict, acc))

\* if l.get('analytic'): the distribution of the line, and the buckets
ResolveAnalytic(l, dict, errs) ==
    IF Falsy(l.analytic) THEN [dist |-> <<>>, errors |-> errs]
    ELSE AnalyticEntries(Split(l.analytic, "|"), l.line, dict,
                         [dist |-> <<>>, errors |-> errs])

----------------------------------------------------------------------------
(* create_moves_from_pivot: MATCHES + CHECKS *)

NoErrors ==
    [journal |-> <<>>, account |-> <<>>, partner |-> <<>>, analytic |-> <<>>,
     other |-> <<>>]

\* errors[key].setdefault(code, []).append(line)
RecordError(errs, key, code, line) ==
    [errs EXCEPT ![key] = DictAppend(errs[key], code, line)]

RecordOther(errs, kind, line) ==
    [errs EXCEPT !.other = Append(errs.other, [kind |-> kind, line |-> line])]

\* One iteration of "for l in pivot" of the resolver, for a line whose
\* account lookup did not crash: the line with its ids, and the buckets.
ResolveFields(l, sd, errs) ==
    LET acc == ResolveAccount(l.account, sd.account).id
        e1 == IF acc = 0 THEN RecordError(errs, "account", l.account, l.line)
              ELSE errs
        partnerKnown == ~Falsy(l.partner) /\ DictHas(sd.partner, l.partner)
        e2 == IF ~Falsy(l.partner) /\ ~partnerKnown
              THEN RecordError(e1, "partner", l.partner, l.line)
              ELSE e1
        ana == ResolveAnalytic(l, sd.analytic, e2)
        journalKnown == DictHas(sd.journal, l.journal)
        e3 == IF journalKnown THEN ana.errors
              ELSE RecordError(ana.errors, "journal", l.journal, l.line)
        e4 == IF l.date = 0 THEN RecordOther(e3, "missing_date", l.line)
              ELSE e3
    IN [line |-> [l EXCEPT !.account_id = acc,
                           !.partner_id = IF partnerKnown
                                          THEN DictGet(sd.partner, l.partner)
                                          ELSE 0,
                           !.analytic_distribution = ana.dist,
                           !.journal_id = IF journalKnown
                                          THEN DictGet(sd.journal, l.journal)
                                          ELSE 0],
        errors |-> e4]

\* msg is non-empty: some bucket holds something
HasErrors(errs) ==
    \/ errs.journal # <<>>
    \/ errs.account # <<>>
    \/ errs.partner # <<>>
    \/ errs.analytic # <<>>
    \/ errs.other # <<>>

ResolveLine ==
    /\ pc = "resolve"
    /\ err = "none"
    /\ i <= Len(pivot)
    /\ LET sd == PrepareSpeeddict(db)
           l == pivot[i]
       IN IF ResolveAccount(l.account, sd.account).crash
          THEN /\ err' = "TypeError"
               /\ UNCHANGED <<pivot, errors, i>>
          ELSE LET r == ResolveFields(l, sd, errors)
               IN /\ pivot' = [pivot EXCEPT ![i] = r.line]
                  /\ errors' = r.errors
                  /\ i' = i + 1
                  /\ UNCHANGED err
    /\ UNCHANGED <<cfg, db, pc, errarg, cur, moves, created, posted, torec,
                   linked, skipped>>

\* LIST OF ERRORS: if msg: raise UserError(msg)
Gate ==
    /\ pc = "resolve"
    /\ err = "none"
    /\ i > Len(pivot)
    /\ IF HasErrors(errors)
       THEN /\ err' = "validation"
            /\ UNCHANGED <<pc, i>>
       ELSE /\ pc' = "split"
            /\ i' = 1
            /\ UNCHANGED err
    /\ UNCHANGED <<cfg, db, pivot, errarg, errors, cur, moves, created, posted,
                   torec, linked, skipped>>

----------------------------------------------------------------------------
(* create_moves_from_pivot: EXTRACT MOVES *)

NoCur ==
    [move |-> <<>>, journal_id |-> 0, move_name |-> FalseV, date |-> 0,
     balance |-> 0]

PrepareMoveLine(l) ==
    [credit |-> l.credit, debit |-> l.debit, name |-> l.name,
     partner_id |-> l.partner_id, account_id |-> l.account_id,
     analytic_distribution |-> l.analytic_distribution,
     import_reconcile |-> l.reconcile_ref, line |-> l.line]

PrepareMove(l, c) ==
    [journal_id |-> l.journal_id, ref |-> l.ref, date |-> l.date,
     name |-> IF ~Falsy(l.move_name) /\ ~c.keep_odoo_move_name
              THEN l.move_name ELSE NoneV,
     line_ids |-> <<>>]

\* (mutant) the lines without amount are skipped whatever the option
SkipLineAlways(l, c) == IsZero(l.credit) /\ IsZero(l.debit)

\* the line is skipped by the skip_null_lines filter
SkipLine(l, c) ==
    c.skip_null_lines /\ IsZero(l.credit) /\ IsZero(l.debit)

\* (mutant) under "balanced" the entry goes on until it balances, whatever
\* the journal and the date of the line
SameMoveUntilBalanced(l, k, c) ==
    IF c.split_move_method = "move_name"
    THEN k.move_name = l.move_name
    ELSE ~IsZero(k.balance)

\* (mutant) under "balanced" the date of the line is never compared
SameMoveJournalOnly(l, k, c) ==
    IF c.split_move_method = "move_name"
    THEN k.move_name = l.move_name
    ELSE /\ k.journal_id = l.journal_id
         /\ ~IsZero(k.balance)

\* (mutant) under "balanced" a balanced entry goes on with the next line
SameMoveNoBalanceCut(l, k, c) ==
    IF c.split_move_method = "move_name"
    THEN k.move_name = l.move_name
    ELSE /\ k.journal_id = l.journal_id
         /\ (c.date_by_move_line \/ k.date = l.date)

\* all(same_move)
SameMove(l, k, c) ==
    IF c.split_move_method = "move_name"
    THEN k.move_name = l.move_name
    ELSE /\ k.journal_id = l.journal_id
         /\ ~IsZero(k.balance)
         /\ (c.date_by_move_line \/ k.date = l.date)

\* (mutant) only an entry without lines is rejected
TooShortEmpty(move) == Len(move.line_ids) < 1

\* the just-closed entry is rejected
TooShort(move) == Len(move.line_ids) <= 1

SplitLine ==
    /\ pc = "split"
    /\ err = "none"
    /\ i <= Len(pivot)
    /\ LET l == pivot[i]
           bal == l.credit - l.debit
       IN IF SkipLine(l, cfg)
          THEN /\ i' = i + 1
               /\ UNCHANGED <<err, errarg, errors, cur, moves>>
          ELSE IF cfg.split_move_method \notin {"move_name", "balanced"}
          THEN /\ err' = "wrong_method"
               /\ UNCHANGED <<errarg, i, errors, cur, moves>>
          ELSE
            /\ errors' = IF cfg.split_move_method = "move_name"
                            /\ Falsy(l.move_name)
                         THEN RecordOther(errors, "missing_move_name", l.line)
                         ELSE errors
            /\ IF SameMove(l, cur, cfg)
               THEN IF cur.move = <<>>
                    THEN \* cur_move['line_ids'] on the empty dict
                         /\ err' = "KeyError"
                         /\ UNCHANGED <<errarg, i, cur, moves>>
                    ELSE /\ cur' = [cur EXCEPT
                               !.move = <<[cur.move[1] EXCEPT !.line_ids =
                                           Append(@, PrepareMoveLine(l))]>>,
                               !.balance = @ + bal]
                         /\ i' = i + 1
                         /\ UNCHANGED <<err, errarg, moves>>
               ELSE IF cur.move # <<>> /\ TooShort(cur.move[1])
                    THEN /\ err' = "split"
                         /\ errarg' = l.line
                         /\ UNCHANGED <<i, cur, moves>>
                    ELSE /\ moves' = IF cur.move # <<>>
                                     THEN Append(moves, cur.move[1])
                                     ELSE moves
                         /\ cur' = [move |-> <<[PrepareMove(l, cfg) EXCEPT
                                        !.line_ids = <<PrepareMoveLine(l)>>]>>,
                                    journal_id |-> l.journal_id,
                                    move_name |-> l.move_name,
                                    date |-> l.date,
                                    balance |-> bal]
                         /\ i' = i + 1
                         /\ UNCHANGED <<err, errarg>>
    /\ UNCHANGED <<cfg, db, pivot, pc, created, posted, torec, linked, skipped>>

\* (mutant) the trailing balance is compared with 0, without tolerance
UnbalancedExact(k) == k.balance # 0

\* the trailing balance is rejected
Unbalanced(k) == ~IsZero(k.balance)

\* (mutant) the entries are created before the trailing balance is checked
EndSplitCreateFirst ==
    /\ pc = "split"
    /\ err = "none"
    /\ i > Len(pivot)
    /\ moves' = IF cur.move # <<>> THEN Append(moves, cur.move[1]) ELSE moves
    /\ created' = moves'
    /\ IF Unbalanced(cur)
       THEN /\ err' = "unbalanced"
            /\ errarg' = cur.balance
            /\ UNCHANGED <<pc, i>>
       ELSE /\ pc' = "create"
            /\ i' = Len(moves') + 1
            /\ UNCHANGED <<err, errarg>>
    /\ UNCHANGED <<cfg, db, pivot, errors, cur, posted, torec, linked, skipped>>

\* after the loop: close the open entry, check the trailing balance
EndSplit ==
    /\ pc = "split"
    /\ err = "none"
    /\ i > Len(pivot)
    /\ moves' = IF cur.move # <<>> THEN Append(moves, cur.move[1]) ELSE moves
    /\ IF Unbalanced(cur)
       THEN /\ err' = "unbalanced"
            /\ errarg' = cur.balance
            /\ UNCHANGED <<pc, i>>
       ELSE /\ pc' = "create"
            /\ i' = 1
            /\ UNCHANGED <<err, errarg>>
    /\ UNCHANGED <<cfg, db, pivot, errors, cur, created, posted, torec, linked,
                   skipped>>

\* for move in moves: rmoves += amo.create(move)
CreateMove ==
    /\ pc = "create"
    /\ err = "none"
    /\ i <= Len(moves)
    /\ created' = Append(created, moves[i])
    /\ i' = i + 1
    /\ UNCHANGED <<cfg, db, pivot, pc, err, errarg, errors, cur, moves, posted, torec,
                   linked, skipped>>

\* (mutant) the entries are posted and reconciled whatever the option
PostAlways ==
    /\ pc = "create"
    /\ err = "none"
    /\ i > Len(moves)
    /\ posted' = TRUE
    /\ pc' = "search"
    /\ UNCHANGED <<cfg, db, pivot, err, errarg, i, errors, cur, moves, created,
                   torec, linked, skipped>>

\* if post: rmoves.action_post(); back in run_import, if self.post_move
Post ==
    /\ pc = "create"
    /\ err = "none"
    /\ i > Len(moves)
    /\ posted' = cfg.post_move
    /\ pc' = IF cfg.post_move THEN "search" ELSE "done"
    /\ UNCHANGED <<cfg, db, pivot, err, errarg, i, errors, cur, moves, created, torec,
                   linked, skipped>>

----------------------------------------------------------------------------
(* reconcile_move_lines *)

RECURSIVE Flatten(_)
Flatten(ms) ==
    IF ms = <<>> THEN <<>>
    ELSE Flatten(SubSeq(ms, 1, Len(ms) - 1)) \o ms[Len(ms)].line_ids

\* search([('move_id', 'in', moves.ids), ('import_reconcile', '!=', False)])
SearchLines(ms) == SelectSeq(Flatten(ms), LAMBDA ml : ~Falsy(ml.import_reconcile))

\* torec[rec_ref]
GroupLines(ms, ref) ==
    SelectSeq(SearchLines(ms), LAMBDA ml : ml.import_reconcile = ref)

GroupRefs(ms) ==
    {SearchLines(ms)[k].import_reconcile : k \in 1..Len(SearchLines(ms))}

RECURSIVE Total(_)
Total(ls) ==
    IF ls = <<>> THEN 0
    ELSE Total(SubSeq(ls, 1, Len(ls) - 1))
         + ls[Len(ls)].credit - ls[Len(ls)].debit

AccountsOf(ls) == {ls[k].account_id : k \in 1..Len(ls)}
PartnersOf(ls) == {ls[k].partner_id : k \in 1..Len(ls)}

\* account.reconcile of the account with this id
AllowsReconcile(d, id) ==
    \E k \in 1..Len(d.accounts) :
        d.accounts[k].id = id /\ d.accounts[k].reconcile

\* (mutant) the two checks on the accounts are left out
ReconcileDecisionNoAccountCheck(ls, d) ==
    IF Len(ls) < 2 THEN "single"
    ELSE IF ~IsZero(Total(ls)) THEN "unbalanced"
    ELSE IF Cardinality(PartnersOf(ls)) > 1 THEN "TypeError"
    ELSE "link"

\* The body of "for rec_ref, lines_to_rec in torec.items()": the skip that
\* applies, "link" when reconcile() is called, "TypeError" when building the
\* warning raises (', '.join() over the partner ids, which are not str).
ReconcileDecision(ls, d) ==
    IF Len(ls) < 2 THEN "single"
    ELSE IF ~IsZero(Total(ls)) THEN "unbalanced"
    ELSE IF Cardinality(AccountsOf(ls)) > 1 THEN "accounts"
    ELSE IF ~AllowsReconcile(d, ls[1].account_id) THEN "not_reconcilable"
    ELSE IF Cardinality(PartnersOf(ls)) > 1 THEN "TypeError"
    ELSE "link"

\* the search and the grouping by import_reconcile
SearchGroups ==
    /\ pc = "search"
    /\ err = "none"
    /\ torec' = GroupRefs(created)
    /\ pc' = "reconcile"
    /\ UNCHANGED <<cfg, db, pivot, err, errarg, i, errors, cur, moves, created, posted,
                   linked, skipped>>

\* one iteration of the loop over torec, in the dict's (search) order
ReconcileGroup ==
    /\ pc = "reconcile"
    /\ err = "none"
    /\ \E ref \in torec :
        LET d == ReconcileDecision(GroupLines(created, ref), db)
        IN /\ IF d = "TypeError"
              THEN /\ err' = "TypeError"
                   /\ UNCHANGED <<torec, linked, skipped>>
              ELSE /\ torec' = torec \ {ref}
                   /\ linked' = IF d = "link" THEN linked \cup {ref} ELSE linked
                   /\ skipped' = IF d = "link" THEN skipped
                                 ELSE skipped \cup {<<ref, d>>}
                   /\ UNCHANGED err
    /\ UNCHANGED <<cfg, db, pivot, pc, errarg, i, errors, cur, moves, created,
                   posted>>

\* reconcile_move_lines returns; run_import returns its action
Finish ==
    /\ pc = "reconcile"
    /\ err = "none"
    /\ torec = {}
    /\ pc' = "done"
    /\ UNCHANGED <<cfg, db, pivot, err, errarg, i, errors, cur, moves, created, posted,
                   torec, linked, skipped>>

----------------------------------------------------------------------------
(* The inputs of a run *)

\* the label of the lines
Label == <<"l", "b">>

MkLine(acc, jrn, par, date, mname, ref, rref, amount) ==
    [account |-> acc, journal |-> jrn, partner |-> par, date |-> date,
     move_name |-> mname, ref |-> ref, reconcile_ref |-> rref,
     name |-> Label, analytic |-> FalseV,
     debit |-> amount[1], credit |-> amount[2],
     line |-> 0, account_id |-> 0, journal_id |-> 0, partner_id |-> 0,
     analytic_distribution |-> <<>>]

\* 'line': the line number in the file, whose first line is the header
Numbered(ls) == [k \in 1..Len(ls) |-> [ls[k] EXCEPT !.line = k + 1]]

PivotsOver(Lines, n) ==
    {Numbered(ls) : ls \in UNION {[1..m -> Lines] : m \in 0..n}}

MkCfg(method, skip, bydate, post) ==
    [split_move_method |-> method, skip_null_lines |-> skip,
     date_by_move_line |-> bydate, post_move |-> post,
     keep_odoo_move_name |-> FALSE,
     force_move_date |-> 0, force_move_ref |-> FalseV,
     force_move_line_name |-> FalseV, force_journal_code |-> FalseV]

Start(c, d, p) ==
    /\ cfg = c
    /\ db = d
    /\ pivot = p
    /\ pc = "normalize"
    /\ err = "none"
    /\ errarg = 0
    /\ i = 1
    /\ errors = NoErrors
    /\ cur = NoCur
    /\ moves = <<>>
    /\ created = <<>>
    /\ posted = FALSE
    /\ torec = {}
    /\ linked = {}
    /\ skipped = {}

C411 == <<"4", "1", "1">>
C600 == <<"6", "0", "0">>
VT == <<"V", "T">>
BQ == <<"B", "Q">>
P1 == <<"P", "1">>
P2 == <<"P", "2">>
R1 == <<"R", "1">>
R2 == <<"R", "2">>
RefX == <<"X">>
RefY == <<"Y">>
AnaA == <<"A", "D", "M">>

DbMain ==
    [accounts |-> << [code |-> C411, id |-> 1, reconcile |-> TRUE],
                     [code |-> C600, id |-> 2, reconcile |-> FALSE] >>,
     journals |-> << [code |-> VT, id |-> 1], [code |-> <<"b", "q">>, id |-> 2] >>,
     partners |-> << [code |-> P1, id |-> 1], [code |-> P2, id |-> 2] >>,
     analytics |-> << [code |-> AnaA, id |-> 1] >>]

\* debit and credit: nothing, a debit, a credit, a debit below the tolerance
Amounts == {<<0, 0>>, <<3, 0>>, <<0, 3>>, <<1, 0>>}

\* The splitter's inputs. Each policy gets the lines whose fields it reads:
\* journal and date under "balanced", move_name under "move_name"; the runs
\* that post carry reconcile refs.
Cfgs ==
    {MkCfg("balanced", s, b, FALSE) : s \in BOOLEAN, b \in BOOLEAN}
    \cup {MkCfg("move_name", s, FALSE, FALSE) : s \in BOOLEAN}
    \cup {MkCfg("balanced", FALSE, FALSE, TRUE)}

LinesFor(c) ==
    IF c.post_move
    THEN {MkLine(C411, VT, Absent, 1, NoneV, RefX, r, a) :
            r \in {<<>>, R1}, a \in {<<3, 0>>, <<0, 3>>}}
    ELSE IF c.split_move_method = "balanced"
    THEN {MkLine(C411, ka[1], Absent, ka[2], NoneV,
                 IF ka[2] = 1 THEN RefX ELSE RefY, FalseV, ka[3]) :
            ka \in {<<VT, 1, a>> : a \in Amounts}
                   \cup {<<BQ, 1, a>> : a \in {<<3, 0>>, <<0, 3>>}}
                   \cup {<<VT, 2, a>> : a \in Amounts \ {<<1, 0>>}}}
         \cup {MkLine(C411, <<"X">>, Absent, 1, NoneV, RefX, FalseV, <<3, 0>>)}
    ELSE {MkLine(C411, VT, Absent, 1, ma[1],
                 IF ma[2][1] = 0 THEN RefX ELSE RefY, FalseV, ma[2]) :
            ma \in {<<<<"A">>, a>> : a \in Amounts \ {<<1, 0>>}}
                   \cup {<<m, a>> : m \in {<<>>, NoneV, <<"B">>},
                                    a \in {<<3, 0>>, <<0, 3>>}}}

Init ==
    \E c \in Cfgs : \E p \in PivotsOver(LinesFor(c), MaxLines) :
        Start(c, DbMain, p)

----------------------------------------------------------------------------
(* The resolver's inputs: account directories and codes around the three   *)
(* matching rules, journal and partner codes known, unknown and in the     *)
(* other letter case.                                                      *)

MaxResolveLines == 2

DirCodes ==
    {<<"6">>, <<"6", "0">>, <<"6", "6">>, <<"6", "0", "0">>, <<"a">>, <<"A">>}

ImportCodes ==
    {Absent, <<"6">>, <<"6", "0">>, <<"6", "0", "0">>, <<"0">>, <<"a">>, <<"A">>}

TwoAccountRows ==
    {<< [code |-> c, id |-> 1, reconcile |-> TRUE],
        [code |-> e, id |-> 2, reconcile |-> TRUE] >> :
            c \in DirCodes, e \in DirCodes}

\* account.account rows in search order, ids in that order
AccountRows ==
    {<<>>}
    \cup {<< [code |-> c, id |-> 1, reconcile |-> TRUE] >> : c \in DirCodes}
    \cup {rows \in TwoAccountRows : rows[1].code # rows[2].code}

ResolveLines ==
    {MkLine(c, VT, Absent, 1, <<"A">>, RefX, R1, <<0, 0>>) : c \in ImportCodes}
    \cup {MkLine(<<"6">>, j, Absent, 1, <<"A">>, RefX, R1, <<0, 0>>) :
            j \in {<<"v", "t">>, BQ, <<"X">>, Absent}}
    \cup {MkLine(<<"6">>, VT, q, 1, <<"A">>, RefX, R1, <<0, 0>>) :
            q \in {P1, <<"p", "1">>, <<"X">>}}
    \cup {MkLine(<<"6">>, VT, Absent, 0, <<"A">>, RefX, R1, <<0, 0>>)}

\* a debit on the first line, a credit on the second, and so on
Alternate(ls) ==
    [k \in 1..Len(ls) |->
        [ls[k] EXCEPT !.debit = IF k % 2 = 1 THEN 3 ELSE 0,
                      !.credit = IF k % 2 = 1 THEN 0 ELSE 3]]

InitResolve ==
    \E rows \in AccountRows : \E p \in PivotsOver(ResolveLines, MaxResolveLines) :
        Start(MkCfg("move_name", FALSE, FALSE, TRUE),
              [DbMain EXCEPT !.accounts = rows], Alternate(p))

----------------------------------------------------------------------------
(* The reconciler's inputs: one entry "A" whose lines carry reconcile refs *)

MaxReconcileLines == 3

ReconcileLines ==
    {MkLine(c, VT, q, 1, <<"A">>, RefX, R1, a) :
        c \in {C411, C600}, q \in {Absent, P1}, a \in {<<3, 0>>, <<0, 3>>}}
    \cup {MkLine(C411, VT, Absent, 1, <<"A">>, RefX, R1, <<0, 0>>)}
    \cup {MkLine(C411, VT, Absent, 1, <<"A">>, RefX, <<>>, a) :
        a \in {<<3, 0>>, <<0, 3>>}}
    \cup {MkLine(C411, VT, Absent, 1, <<"A">>, RefX, R2, a) :
        a \in Amounts \ {<<1, 0>>}}

InitReconcile ==
    \E p \in PivotsOver(ReconcileLines, MaxReconcileLines) :
        Start(MkCfg("move_name", FALSE, FALSE, TRUE), DbMain, p)

----------------------------------------------------------------------------
(* The Normalizer's inputs: values with surrounding whitespace, empty and  *)
(* whitespace-only strings, and the forced values of the wizard, which the *)
(* ORM stores as they are written.                                         *)

MaxNormalizeLines == 2

ForceCfgs ==
    {[MkCfg("move_name", FALSE, FALSE, TRUE) EXCEPT
        !.force_move_date = d,
        !.force_move_ref = r,
        !.force_move_line_name = n,
        !.force_journal_code = j] :
            d \in {0, 2},
            r \in {FalseV, <<" ", "R">>},
            n \in {FalseV, <<" ">>},
            j \in {FalseV, VT}}

NormalizeLines ==
    {[MkLine(<<"4", "1", "1", " ">>, j, <<>>, 1, <<"A">>, r, <<" ", "R", "1">>,
             <<0, 0>>) EXCEPT !.name = n] :
        j \in {<<" ", "V", "T">>, <<" ">>},
        r \in {<<"X", " ">>, FalseV},
        n \in {<<" ", " ", "a">>, <<" ">>, <<>>}}

InitNormalize ==
    \E c \in ForceCfgs : \E p \in PivotsOver(NormalizeLines, MaxNormalizeLines) :
        Start(c, DbMain, Alternate(p))

----------------------------------------------------------------------------
(* The analytic field: one and two segments, percentages written with a    *)
(* dot, a comma, a sign, spaces, and strings that are not numbers.         *)

MaxAnalyticLines == 2

AnalyticValues ==
    {FalseV,
     AnaA,
     <<"a", "d", "m">>,
     AnaA \o <<":", "5", "0">>,
     AnaA \o <<":", "1", "0", "0">>,
     AnaA \o <<":", "0">>,
     AnaA \o <<":", "1", "0", "1">>,
     AnaA \o <<":", "-", "1">>,
     AnaA \o <<":", "0", ",", "5">>,
     AnaA \o <<":", "n", "a", "n">>,
     AnaA \o <<":", "x">>,
     <<" ">> \o AnaA \o <<" ", ":", " ", "5", " ">>,
     <<"X">> \o <<"|">> \o AnaA \o <<":", "5", "0">>,
     AnaA \o <<":", "5", "|", "|">> \o AnaA \o <<":", "7", ".", "5">>}

AnalyticLines ==
    {[MkLine(C411, VT, Absent, 1, <<"A">>, RefX, R1, <<0, 0>>)
        EXCEPT !.analytic = v] : v \in AnalyticValues}

InitAnalytic ==
    \E p \in PivotsOver(AnalyticLines, MaxAnalyticLines) :
        Start(MkCfg("move_name", FALSE, FALSE, TRUE), DbMain, Alternate(p))

Next ==
    \/ Normalize
    \/ ResolveLine
    \/ Gate
    \/ SplitLine
    \/ EndSplit
    \/ CreateMove
    \/ Post
    \/ SearchGroups
    \/ ReconcileGroup
    \/ Finish

Spec == Init /\ [][Next]_vars

SpecResolve == InitResolve /\ [][Next]_vars

SpecReconcile == InitReconcile /\ [][Next]_vars

SpecNormalize == InitNormalize /\ [][Next]_vars

SpecAnalytic == InitAnalytic /\ [][Next]_vars

----------------------------------------------------------------------------
(* Properties *)

\* C1: every entry handed to account.move.create has at least 2 lines and a
\* net balance (credits minus debits over its lines) that is currency-zero,
\* whatever the split policy and the options.
C1_CreatedEntriesBalanced ==
    \A k \in 1..Len(created) :
        /\ Len(created[k].line_ids) >= 2
        /\ IsZero(Total(created[k].line_ids))

\* every line went through the resolver without an entry in a bucket
LineValid(l) ==
    /\ l.account_id # 0
    /\ l.journal_id # 0
    /\ l.date # 0
    /\ (l.partner # Absent => l.partner_id # 0)

\* C2: persistence is all-or-nothing: while the resolver or the splitter
\* runs, and in every run that one of them ends with an error (validation
\* gate, entry with fewer than 2 lines, wrong split method, trailing
\* balance), no entry has been created; entries are created only once every
\* line is resolved and the whole sequence is split, and then they are the
\* splitter's entries, in order.
C2_NoPartialCommit ==
    /\ (pc \in {"resolve", "split"} => created = <<>>)
    /\ (err \in {"validation", "split", "wrong_method", "unbalanced"}
            => created = <<>>)
    /\ (created # <<>> =>
            /\ \A k \in 1..Len(pivot) : LineValid(pivot[k])
            /\ IsZero(cur.balance)
            /\ Len(created) <= Len(moves)
            /\ \A k \in 1..Len(created) : created[k] = moves[k])

\* C2 witness: the trailing balance check fails after two entries were cut,
\* and nothing was created.
C2_Witness ==
    /\ err = "unbalanced"
    /\ Len(moves) >= 2
    /\ created = <<>>

\* the line number is listed under the code in the bucket
Listed(bucket, code, line) ==
    /\ DictHas(bucket, code)
    /\ \E n \in 1..Len(DictGet(bucket, code)) : DictGet(bucket, code)[n] = line

\* the lines the resolver has been through
Resolved ==
    IF pc = "normalize" THEN {}
    ELSE IF pc = "resolve" THEN 1..(i - 1)
    ELSE 1..Len(pivot)

\* C3: the resolver goes through every line before the validation error is
\* raised: when it is raised, every line whose account, journal or partner
\* code was not resolved has its number listed under that code in the
\* account, journal or partner bucket; and the error is raised if and only
\* if a bucket (journal, account, partner, analytic, other) is non-empty
\* after the last line.
C3_AllFailuresCollected ==
    /\ (pc = "resolve" /\ err = "validation") =>
        /\ i = Len(pivot) + 1
        /\ \A k \in 1..Len(pivot) :
            LET l == pivot[k]
            IN /\ l.account_id = 0 => Listed(errors.account, l.account, l.line)
               /\ l.journal_id = 0 => Listed(errors.journal, l.journal, l.line)
               /\ (l.partner # Absent /\ l.partner_id = 0)
                      => Listed(errors.partner, l.partner, l.line)
        /\ \E key \in DOMAIN errors : errors[key] # <<>>
    /\ (pc = "split" /\ i = 1 /\ err = "none") =>
        \A key \in DOMAIN errors : errors[key] = <<>>

\* C3 witness: the validation error with two lines listed under one code.
C3_Witness ==
    /\ pc = "resolve"
    /\ err = "validation"
    /\ \E key \in {"account", "journal", "partner"} :
        \E n \in 1..Len(errors[key]) : Len(errors[key][n].val) >= 2

\* the lengths of the proper prefixes of code left by removing trailing '0's
TrailingZeroCuts(code) ==
    {n \in 1..(Len(code) - 1) : \A m \in (n + 1)..Len(code) : code[m] = "0"}

\* the ids the ordered rule (a) exact, (b) longest trailing-zero
\* truncation, (c) a directory code starting with the import code, (d) none
\* allows for an import code
RuleIds(code, dict) ==
    LET cuts == {n \in TrailingZeroCuts(code) : DictHas(dict, SubSeq(code, 1, n))}
        longest == CHOOSE n \in cuts : \A m \in cuts : m <= n
        starts == {j \in 1..Len(dict) : StartsWith(dict[j].key, code)}
    IN IF \E j \in 1..Len(dict) : dict[j].key = code
       THEN {dict[j].val : j \in {h \in 1..Len(dict) : dict[h].key = code}}
       ELSE IF cuts # {}
       THEN {dict[j].val :
                j \in {h \in 1..Len(dict) : dict[h].key = SubSeq(code, 1, longest)}}
       ELSE IF starts # {} THEN {dict[j].val : j \in starts}
       ELSE {0}

\* C9: the account_id of every resolved line is the result of the ordered
\* rule applied to its account code and the directory: the exact match if
\* any; else the match of the longest proper prefix obtained by removing
\* trailing '0' characters; else a directory entry whose code starts with
\* the import code; else none, with the line listed in the account bucket.
C9_AccountResolutionOrder ==
    \A k \in Resolved :
        LET l == pivot[k]
        IN /\ l.account_id \in RuleIds(l.account, PrepareSpeeddict(db).account)
           /\ l.account_id = 0 => Listed(errors.account, l.account, l.line)

\* C9 witness: a code resolved by truncation although a directory code
\* starts with it.
C9_Witness ==
    \E k \in Resolved :
        LET l == pivot[k]
            dict == PrepareSpeeddict(db).account
        IN /\ l.account = <<"6", "0">>
           /\ ~DictHas(dict, l.account)
           /\ l.account_id = DictGet(dict, <<"6">>)
           /\ l.account_id # 0
           /\ \E j \in 1..Len(dict) :
                StartsWith(dict[j].key, l.account) /\ dict[j].val # l.account_id

\* C10: a code of the file that differs from a directory code only by
\* letter case (the two are equal once uppercased) resolves to that
\* directory entry's id and gets no entry in the error bucket, for account,
\* journal and partner codes alike.
C10_CaseInsensitiveMatch ==
    \A k \in Resolved :
        LET l == pivot[k]
            sd == PrepareSpeeddict(db)
        IN /\ (l.account # Absent /\ DictHas(sd.account, Upper(l.account))) =>
                /\ l.account_id = DictGet(sd.account, Upper(l.account))
                /\ ~DictHas(errors.account, l.account)
           /\ (l.journal # Absent /\ DictHas(sd.journal, Upper(l.journal))) =>
                /\ l.journal_id = DictGet(sd.journal, Upper(l.journal))
                /\ ~DictHas(errors.journal, l.journal)
           /\ (l.partner # Absent /\ DictHas(sd.partner, Upper(l.partner))) =>
                /\ l.partner_id = DictGet(sd.partner, Upper(l.partner))
                /\ ~DictHas(errors.partner, l.partner)

\* C4: reconcile() is called on a reconcile group only if the group has at
\* least 2 lines, a currency-zero net credit minus debit, one account on all
\* its lines, which allows reconciliation, and one partner value on all its
\* lines (no partner counting as a value); a skipped group is not linked.
C4_LinkOnlyValidGroups ==
    /\ \A ref \in linked :
        LET ls == GroupLines(created, ref)
        IN /\ Len(ls) >= 2
           /\ IsZero(Total(ls))
           /\ \A a, b \in 1..Len(ls) :
                /\ ls[a].account_id = ls[b].account_id
                /\ ls[a].partner_id = ls[b].partner_id
           /\ \E r \in 1..Len(db.accounts) :
                /\ db.accounts[r].id = ls[1].account_id
                /\ db.accounts[r].reconcile
    /\ \A sk \in skipped : sk[1] \notin linked

\* C4 witness: one group linked and another one skipped in the same run.
C4_Witness ==
    /\ linked # {}
    /\ skipped # {}

\* C5: reconcile_move_lines never raises: whatever disqualifies a group, the
\* group is skipped and the loop goes on to the run's successful end.
C5_ReconcileNeverRaises ==
    pc \in {"search", "reconcile"} => err = "none"

C7_MissingMoveNameFails ==
    (/\ cfg.split_move_method = "move_name"
     /\ \E k \in 1..Len(pivot) :
            ~SkipLine(pivot[k], cfg) /\ Falsy(pivot[k].move_name))
    => (pc \in {"normalize", "resolve", "split"} /\ created = <<>>)

\* C8: a pivot of exactly one (valid, non-skipped) line under the balanced
\* policy ends with the split error (fewer than 2 lines), whatever its debit
\* and credit: no other error, and no entry is created.
C8_SingleLineSplitError ==
    (/\ cfg.split_move_method = "balanced"
     /\ Len(pivot) = 1
     /\ ~SkipLine(pivot[1], cfg)
     /\ err # "validation")
    => (/\ pc \in {"normalize", "resolve", "split"}
        /\ err \in {"none", "split"}
        /\ created = <<>>)

\* the non-skipped line the splitter is about to process
AtLine ==
    /\ pc = "split"
    /\ err = "none"
    /\ i <= Len(pivot)
    /\ ~(/\ cfg.skip_null_lines
          /\ IsZero(pivot[i].credit)
          /\ IsZero(pivot[i].debit))

\* C11: whenever a non-skipped line starts a new entry while the open entry
\* holds fewer than 2 lines, the run stops there with the error that
\* reports the number of that line: the line is not consumed, nothing is
\* emitted or created, and once the error is raised no step follows.
C11_ShortEntryStopsRun ==
    [][/\ err # "split"
       /\ (/\ AtLine
           /\ cur.move # <<>>
           /\ Len(cur.move[1].line_ids) < 2
           /\ ~SameMove(pivot[i], cur, cfg))
          => /\ err' = "split"
             /\ errarg' = pivot[i].line
             /\ i' = i
             /\ cur' = cur
             /\ moves' = moves
             /\ created' = <<>>]_vars

\* C11 witness: the split error on a line that is not the last one, after
\* an entry was emitted.
C11_Witness ==
    /\ err = "split"
    /\ errarg = pivot[i].line
    /\ i < Len(pivot)
    /\ Len(cur.move[1].line_ids) = 1

\* the balance of the lines of the open entry
Residual == IF cur.move = <<>> THEN 0 ELSE Total(cur.move[1].line_ids)

\* C12: after the last line, if the running balance (credit minus debit
\* since the open entry was opened) is not currency-zero the run fails with
\* the unbalanced-entry error, which reports that balance; if it is
\* currency-zero the splitter ends without error.
C12_TrailingBalanceChecked ==
    [][(pc = "split" /\ err = "none" /\ i > Len(pivot))
       => IF IsZero(Residual)
          THEN err' = "none" /\ pc' = "create"
          ELSE /\ err' = "unbalanced"
               /\ errarg' = Residual
               /\ pc' = "split"
               /\ created' = <<>>]_vars

\* C12 witness: the error reports the balance of the last entry, an entry
\* before it being balanced.
C12_Witness ==
    /\ err = "unbalanced"
    /\ Len(moves) >= 2
    /\ errarg = Total(moves[Len(moves)].line_ids)
    /\ errarg # 0
    /\ IsZero(Total(moves[1].line_ids))

\* the line is not removed by the filter on lines without amount
Kept(l) ==
    ~(cfg.skip_null_lines /\ IsZero(l.credit) /\ IsZero(l.debit))

\* the lines of the entries cut so far, the open one last
Emitted ==
    Flatten(moves) \o
        (IF pc = "split" /\ cur.move # <<>> THEN cur.move[1].line_ids ELSE <<>>)

\* the lines the splitter has been through
Consumed ==
    IF pc \in {"normalize", "resolve"} THEN <<>>
    ELSE IF pc = "split" THEN SubSeq(pivot, 1, i - 1)
    ELSE pivot

\* the journal items of the kept lines of a sequence of pivot lines
RECURSIVE KeptItems(_)
KeptItems(ls) ==
    IF ls = <<>> THEN <<>>
    ELSE KeptItems(SubSeq(ls, 1, Len(ls) - 1)) \o
            (IF Kept(ls[Len(ls)]) THEN <<PrepareMoveLine(ls[Len(ls)])>> ELSE <<>>)

\* C13: the splitter partitions its input in order: at every point, and so
\* when it succeeds, the lines of the entries in emission order are the
\* lines gone through, in their order, minus (only when skip_null_lines is
\* on) the lines whose debit and credit are both currency-zero; and a
\* skipped line changes neither the open entry nor the current journal,
\* date, move_name and running balance, nor the entries already cut.
C13_SplitterPartitions ==
    /\ [](err = "none" => Emitted = KeptItems(Consumed))
    /\ [][(pc = "split" /\ err = "none" /\ i <= Len(pivot) /\ ~Kept(pivot[i]))
          => /\ cur' = cur
             /\ moves' = moves
             /\ err' = "none"
             /\ i' = i + 1]_vars

\* C13 witness: the splitter succeeded with a line skipped between two
\* lines of an entry.
C13_Witness ==
    /\ pc = "create"
    /\ Len(pivot) >= 3
    /\ ~Kept(pivot[2])
    /\ Len(moves) = 1
    /\ Len(moves[1].line_ids) = 2

\* the pivot line a journal item was made from ('line' counts the header)
LineOf(ml) == pivot[ml.line - 1]

\* C14: in every emitted entry the lines share the grouping key of the
\* first line: under "balanced" its journal and, unless date_by_move_line
\* is on, its date; under "move_name" its move_name; and the journal, date
\* and ref of the entry are those of its first line.
C14_EntryKeyFromFirstLine ==
    \A k \in 1..Len(moves) :
        LET ls == moves[k].line_ids
            first == LineOf(ls[1])
        IN /\ moves[k].journal_id = first.journal_id
           /\ moves[k].date = first.date
           /\ moves[k].ref = first.ref
           /\ \A n \in 1..Len(ls) :
                IF cfg.split_move_method = "balanced"
                THEN /\ LineOf(ls[n]).journal_id = first.journal_id
                     /\ (cfg.date_by_move_line
                            \/ LineOf(ls[n]).date = first.date)
                ELSE LineOf(ls[n]).move_name = first.move_name

\* C14 witness: with date_by_move_line on, an emitted entry whose second
\* line has another date and another ref than its first line.
C14_Witness ==
    /\ cfg.split_move_method = "balanced"
    /\ cfg.date_by_move_line
    /\ \E k \in 1..Len(moves) :
        /\ Len(moves[k].line_ids) >= 2
        /\ LineOf(moves[k].line_ids[2]).date # moves[k].date
        /\ LineOf(moves[k].line_ids[2]).ref # moves[k].ref

\* C19: under "balanced" an entry is cut as soon as it balances: when the
\* balance of the open entry is currency-zero, the next non-skipped line is
\* not appended to it, even with the same journal and date (it opens a new
\* entry, or the run stops because the open entry holds a single line); so
\* no entry has a non-empty proper prefix of its lines whose balance is
\* currency-zero.
C19_CutAsSoonAsBalanced ==
    /\ [](cfg.split_move_method = "balanced" =>
            \A k \in 1..Len(moves) :
                \A n \in 1..(Len(moves[k].line_ids) - 1) :
                    ~IsZero(Total(SubSeq(moves[k].line_ids, 1, n))))
    /\ [][(/\ AtLine
           /\ cfg.split_move_method = "balanced"
           /\ cur.move # <<>>
           /\ IsZero(Residual))
          => \/ /\ err' = "split"
                /\ Len(cur.move[1].line_ids) < 2
             \/ /\ err' = "none"
                /\ moves' = Append(moves, cur.move[1])
                /\ cur'.move[1].line_ids = <<PrepareMoveLine(pivot[i])>>]_vars

\* C19 witness: two consecutive entries with the same journal and date,
\* the first one cut because it was balanced.
C19_Witness ==
    /\ cfg.split_move_method = "balanced"
    /\ Len(moves) >= 2
    /\ moves[1].journal_id = moves[2].journal_id
    /\ moves[1].date = moves[2].date
    /\ IsZero(Total(moves[1].line_ids))

\* C20: under both policies the first non-skipped line opens a new entry:
\* while no entry is open a non-skipped line is never appended, it opens
\* an entry of which it is the first line, whatever its move_name.
C20_FirstLineOpensEntry ==
    [][(AtLine /\ cur.move = <<>>)
       => /\ err' = "none"
          /\ cur'.move # <<>>
          /\ cur'.move[1].line_ids = <<PrepareMoveLine(pivot[i])>>
          /\ moves' = moves]_vars

\* C15: the Normalizer (clean_strip_pivot then update_pivot, the forced
\* values being fixed) is idempotent: applied to the pivot it has just
\* normalised, it leaves every field of every line as it is.
C15_NormalizerIdempotent ==
    (pc = "resolve" /\ i = 1 /\ errors = NoErrors)
        => NormalizePivot(pivot, cfg) = pivot

\* C15 witness: a normalised line holds a forced label made of whitespace,
\* which a second clean_strip_pivot turns into False before update_pivot
\* forces it again.
C15_Witness ==
    /\ pc = "resolve"
    /\ i = 1
    /\ \E k \in 1..Len(pivot) :
        /\ pivot[k].name = cfg.force_move_line_name
        /\ CleanValue(pivot[k].name) = FalseV
        /\ pivot[k].journal = <<"V", "T">>

\* C16 (as claimed): once the Normalizer has run, whatever the forced
\* values, no field of a line holds the empty string and every field that
\* holds a string is trimmed.
C16_NoEmptyAllTrimmed ==
    pc # "normalize" =>
        \A k \in 1..Len(pivot) : \A f \in TextFields :
            /\ pivot[k][f] # <<>>
            /\ (IsStr(pivot[k][f]) => Strip(pivot[k][f]) = pivot[k][f])

\* the value the wizard forces on a field, False for none
Forced(f) ==
    IF f = "ref" THEN cfg.force_move_ref
    ELSE IF f = "name" THEN cfg.force_move_line_name
    ELSE IF f = "journal" THEN cfg.force_journal_code
    ELSE FalseV

\* C16 (amended): once the Normalizer has run, no field of a line holds the
\* empty string, and every field that holds a string is trimmed unless it
\* holds the forced reference, label or journal code, which update_pivot
\* writes after the cleaning exactly as the wizard holds it, surrounding
\* whitespace included.
C16_NoEmptyTrimmedUnlessForced ==
    pc # "normalize" =>
        \A k \in 1..Len(pivot) : \A f \in TextFields :
            /\ pivot[k][f] # <<>>
            /\ (IsStr(pivot[k][f]) =>
                    \/ Strip(pivot[k][f]) = pivot[k][f]
                    \/ pivot[k][f] = Forced(f))
            /\ (~Falsy(Forced(f)) => pivot[k][f] = Forced(f))

\* C16 witness: a normalised line whose ref is the forced one, untrimmed,
\* and whose label, made of whitespace in the file, is False.
C16_Witness ==
    /\ pc = "resolve"
    /\ \E k \in 1..Len(pivot) :
        /\ pivot[k].ref = cfg.force_move_ref
        /\ Strip(pivot[k].ref) # pivot[k].ref
        /\ pivot[k].name = FalseV
        /\ pivot[k].account = <<"4", "1", "1">>

\* C17: in a run that passed the validation gate, the analytic_distribution
\* of every line holds only ids of the analytic directory, every percentage
\* is greater than 0 and at most 100, and a field made of one segment
\* without ':' gives exactly 100.
C17_DistributionInRange ==
    (pc \notin {"normalize", "resolve"}) =>
        \A k \in 1..Len(pivot) :
            LET l == pivot[k]
                dist == l.analytic_distribution
            IN /\ \A n \in 1..Len(dist) :
                    /\ \E r \in 1..Len(db.analytics) :
                            db.analytics[r].id = dist[n].key
                    /\ dist[n].val.den > 0
                    /\ dist[n].val.num > 0
                    /\ dist[n].val.num <= 100 * dist[n].val.den
               /\ (/\ ~Falsy(l.analytic)
                   /\ \A m \in 1..Len(l.analytic) : l.analytic[m] \notin {":", "|"})
                  => \A n \in 1..Len(dist) : dist[n].val = Pct(100, 1)

\* the stages of run_import, in order
StageOrder ==
    {<<"normalize", "resolve">>, <<"resolve", "split">>, <<"split", "create">>,
     <<"create", "search">>, <<"create", "done">>, <<"search", "reconcile">>,
     <<"reconcile", "done">>}

\* C18: the stages of a run come in a fixed order: normalisation, then the
\* resolution of every line, then the split, then the creation of every
\* entry, then posting, then the search of the lines to reconcile and the
\* links; posting, search and links happen only when post_move is on, and
\* never when it is off.
C18_StagesInOrder ==
    /\ [](/\ pc = "normalize" =>
                /\ i = 1
                /\ errors = NoErrors
                /\ \A k \in 1..Len(pivot) :
                        pivot[k].account_id = 0 /\ pivot[k].journal_id = 0
          /\ pc \in {"normalize", "resolve"} => (cur = NoCur /\ moves = <<>>)
          /\ pc \in {"normalize", "resolve", "split"} => created = <<>>
          /\ pc \in {"normalize", "resolve", "split", "create"} =>
                (~posted /\ torec = {} /\ linked = {} /\ skipped = {})
          /\ posted => (cfg.post_move /\ created = moves)
          /\ pc \in {"search", "reconcile"} => posted
          /\ (torec # {} \/ linked # {} \/ skipped # {}) =>
                (posted /\ pc \in {"reconcile", "done"})
          /\ ~cfg.post_move =>
                (~posted /\ pc \notin {"search", "reconcile"}))
    /\ [][/\ pc' # pc => <<pc, pc'>> \in StageOrder
          /\ (pc = "resolve" /\ pc' = "split") => i > Len(pivot)
          /\ (pc = "create" /\ pc' # pc) => created = moves
          /\ (pc = "create" /\ pc' = "search") => (posted' /\ cfg.post_move)
          /\ (pc = "create" /\ pc' = "done") => (~posted' /\ ~cfg.post_move)
         ]_vars

\* C18 witness: a run with post_move that went through every stage and
\* linked a group.
C18_Witness ==
    /\ pc = "done"
    /\ posted
    /\ Len(created) >= 1
    /\ linked # {}

====
